---- MODULE Spec2Model ----
(***************************************************************************)
(* Model of cdxj_to_zipnum.py: a sorted CDX/CDXJ line stream is grouped    *)
(* into chunks, every chunk is compressed as one gzip member and appended  *)
(* to the current shard file, an index record is emitted per chunk, and a  *)
(* location file is written once all shards are known.                     *)
(*                                                                         *)
(* Text is a sequence of one-character strings, bytes are integers; text   *)
(* is written to a file as its UTF-8 bytes.  A gzip member is computed byte *)
(* for byte as gzip.compress produces it at the default level 6.  Files    *)
(* are written through buffered handles: the output directory holds the    *)
(* bytes that have reached the files, a handle holds what is still pending.*)
(***************************************************************************)
EXTENDS Integers, Sequences, FiniteSets, TLC

\* ------------------------------------------------------------------ bounds
MaxLines == 3
MaxChunkSize == 3
MaxThreshold == 44
\* A fault (an I/O error) strikes within the first MaxFaultLines input lines;
\* the runs in which the clock advances or an error is swallowed, so that
\* the run goes on, are those over at most MaxFaultLines lines.
MaxFaultLines == 2
\* A close() whose write fails part-way is followed, at every number of
\* bytes written, in the runs over inputs of at most MaxFaultBytes bytes.
MaxFaultBytes == 2
\* The latest time of day, in seconds since the epoch, at which a chunk is
\* compressed.
MaxTime == 1793285548

\* --------------------------------------------------------- text primitives
Last(s) == s[Len(s)]

StartsWithAt(s, sub, i) ==
    /\ i + Len(sub) - 1 <= Len(s)
    /\ \A k \in 1..Len(sub) : s[i + k - 1] = sub[k]

\* str.endswith
EndsWith(s, suf) ==
    /\ Len(suf) <= Len(s)
    /\ StartsWithAt(s, suf, Len(s) - Len(suf) + 1)

\* str.replace(old, ''): every non-overlapping occurrence, left to right
RECURSIVE ReplaceFrom(_, _, _)
ReplaceFrom(s, old, i) ==
    IF i > Len(s) THEN <<>>
    ELSE IF StartsWithAt(s, old, i) THEN ReplaceFrom(s, old, i + Len(old))
    ELSE <<s[i]>> \o ReplaceFrom(s, old, i + 1)

Replace(s, old) == ReplaceFrom(s, old, 1)

\* b''.join(list) and ''.join(list)
RECURSIVE Join(_)
Join(ss) == IF ss = <<>> THEN <<>> ELSE Join(SubSeq(ss, 1, Len(ss) - 1)) \o Last(ss)

Digit(d) == <<"0", "1", "2", "3", "4", "5", "6", "7", "8", "9">>[d + 1]

\* str(n) for n >= 0
RECURSIVE Dec(_)
Dec(n) == IF n < 10 THEN <<Digit(n)>> ELSE Dec(n \div 10) \o <<Digit(n % 10)>>

\* f"{n:02d}"
Dec02(n) == IF n < 10 THEN <<"0">> \o Dec(n) ELSE Dec(n)

CdxGz == <<".", "c", "d", "x", ".", "g", "z">>

output_dir == <<"o">>

\* os.path.join(output_dir, name), for a name without separators
PathJoin(dir, name) == dir \o <<"/">> \o name

\* os.path.basename
RECURSIVE Basename(_)
Basename(p) ==
    IF p = <<>> \/ Last(p) = "/" THEN <<>>
    ELSE Basename(SubSeq(p, 1, Len(p) - 1)) \o <<Last(p)>>

\* ------------------------------------------------------------ key extractor
\* Bytes are integers 0..255; text is a sequence of one-character strings.
Whitespace == {" ", "\t", "\n", "\r", "\f"}

\* The ASCII characters that occur in the inputs and in the outputs, each
\* with its code.
Ascii ==
    <<<<9, "\t">>, <<10, "\n">>, <<12, "\f">>, <<13, "\r">>, <<32, " ">>, <<45, "-">>,
      <<46, ".">>, <<47, "/">>, <<48, "0">>, <<49, "1">>, <<50, "2">>, <<51, "3">>,
      <<52, "4">>, <<53, "5">>, <<54, "6">>, <<55, "7">>, <<56, "8">>, <<57, "9">>,
      <<97, "a">>, <<98, "b">>, <<99, "c">>, <<100, "d">>, <<103, "g">>, <<119, "w">>,
      <<120, "x">>, <<122, "z">>, <<123, "{">>, <<125, "}">>>>

\* The character of each single-byte UTF-8 sequence; a byte that is not one
\* decodes to U+FFFD.
ChrMap ==
    [b \in 0..255 |->
        IF \E k \in 1..Len(Ascii) : Ascii[k][1] = b
        THEN Ascii[CHOOSE k \in 1..Len(Ascii) : Ascii[k][1] = b][2]
        ELSE "uFFFD"]

Chr(b) == ChrMap[b]

\* The UTF-8 bytes of each character
OrdMap ==
    [c \in {Ascii[k][2] : k \in 1..Len(Ascii)} \cup {"uFFFD"} |->
        IF c = "uFFFD" THEN <<239, 191, 189>>
        ELSE <<Ascii[CHOOSE k \in 1..Len(Ascii) : Ascii[k][2] = c][1]>>]

Ord(c) == OrdMap[c]

\* str.encode('utf-8') of the characters lo..hi of text
RECURSIVE EncodeRange(_, _, _)
EncodeRange(text, lo, hi) ==
    IF lo > hi THEN <<>>
    ELSE IF lo = hi THEN Ord(text[lo])
    ELSE EncodeRange(text, lo, (lo + hi) \div 2) \o EncodeRange(text, (lo + hi) \div 2 + 1, hi)

\* The bytes a text file handle (encoding='utf-8') writes for text
Encode(text) == EncodeRange(text, 1, Len(text))

\* bytes.decode('utf-8', errors='replace'): an undecodable byte becomes U+FFFD
Decode(bs) == [i \in 1..Len(bs) |-> Chr(bs[i])]

RECURSIVE RStrip(_, _)
RStrip(s, chars) ==
    IF s # <<>> /\ Last(s) \in chars THEN RStrip(SubSeq(s, 1, Len(s) - 1), chars) ELSE s

RECURSIVE LStrip(_, _)
LStrip(s, chars) ==
    IF s # <<>> /\ s[1] \in chars THEN LStrip(SubSeq(s, 2, Len(s)), chars) ELSE s

Strip(s) == LStrip(RStrip(s, Whitespace), Whitespace)

\* str.find(c): 0-based position of the first c, -1 when absent
Find(s, c) ==
    IF \E i \in 1..Len(s) : s[i] = c
    THEN (CHOOSE i \in 1..Len(s) : s[i] = c /\ \A j \in 1..(i - 1) : s[j] # c) - 1
    ELSE -1

extract_prejson(line_bytes) ==
    LET line == RStrip(Decode(line_bytes), {"\r", "\n"})
        idx  == Find(line, "{")
    IN  IF idx # -1 THEN Strip(SubSeq(line, 1, idx)) ELSE Strip(line)

\* --------------------------------------------------------- chunk compressor
\* gzip.compress(data, compresslevel=6), byte for byte: the ten-byte header
\* with the time of the call as MTIME, the deflate stream that zlib produces
\* at level 6 (lazy matching over the hash chains, one final block with the
\* fixed Huffman codes or stored), CRC-32 and ISIZE.  zlib chooses a block
\* with dynamic Huffman codes when its estimate is smaller than the one for
\* the fixed codes; that needs more data than a chunk of this model holds,
\* and the estimate is not computed here.
LE16(n) == <<n % 256, (n \div 256) % 256>>
LE32(n) == <<n % 256, (n \div 256) % 256, (n \div 65536) % 256, (n \div 16777216) % 256>>

\* struct.pack("<BBBBLBB", 0x1f, 0x8b, 8, 0, int(mtime), xfl, 255), xfl = 0
GzHeader(mtime) == <<31, 139, 8, 0>> \o LE32(mtime) \o <<0, 255>>

\* zlib's deflate parameters; level 6 is {good 8, lazy 16, nice 128, chain 128}
MIN_MATCH == 3
MAX_MATCH == 258
MAX_DIST == 32506
TOO_FAR == 4096
NIL == 0
good_match == 8
max_lazy_match == 16
nice_length == 128
max_chain_length == 128

Min(a, b) == IF a < b THEN a ELSE b

\* Positions are 0-based as in zlib: d[p + 1] is window[p].
\* Two positions are on the same hash chain when their next three bytes agree.
SameHash(d, p, s) ==
    /\ s + MIN_MATCH <= Len(d)
    /\ d[p + 1] = d[s + 1] /\ d[p + 2] = d[s + 2] /\ d[p + 3] = d[s + 3]

\* INSERT_STRING: the most recent earlier position on the chain of s, NIL
\* when there is none; position 0 cannot be told from NIL.
HashHead(d, s) ==
    LET on == {p \in 0..(s - 1) : SameHash(d, p, s)}
    IN  IF on = {} THEN NIL ELSE CHOOSE p \in on : \A q \in on : q <= p

\* Length of the match of the strings at p and s, within the lookahead.
MatchLen(d, p, s) ==
    LET cap == Min(Len(d) - s, MAX_MATCH)
        differ == {l \in 0..(cap - 1) : d[p + l + 1] # d[s + l + 1]}
    IN  IF differ = {} THEN cap ELSE CHOOSE l \in differ : \A m \in differ : l <= m

\* longest_match: the chain of s is walked from the most recent position
\* down to position 1, for at most chain_length positions and no further
\* than the first nice match; the result is the first match on the way that
\* is longer than every match before it and than prev_length.
longest_match(d, s, prev_length, prev_match) ==
    LET lookahead == Len(d) - s
        chain_length == IF prev_length >= good_match THEN max_chain_length \div 4
                        ELSE max_chain_length
        nice_match == Min(nice_length, lookahead)
        on == {p \in (NIL + 1)..(s - 1) : SameHash(d, p, s)}
        len == [p \in on |-> MatchLen(d, p, s)]
        Stops(q) == len[q] >= nice_match /\ len[q] > prev_length
        walked == {p \in on : /\ Cardinality({q \in on : q > p}) < chain_length
                              /\ \A q \in on : q > p => ~Stops(q)}
        longer == {p \in walked : len[p] > prev_length}
        best == CHOOSE p \in longer :
                    \A q \in longer : len[q] < len[p] \/ (len[q] = len[p] /\ q <= p)
    IN  IF longer = {} THEN [len |-> Min(prev_length, lookahead), start |-> prev_match]
        ELSE [len |-> Min(len[best], lookahead), start |-> best]

Literal(b) == [len |-> 0, dist |-> 0, lit |-> b]
Match(l, dist) == [len |-> l, dist |-> dist, lit |-> 0]

\* A match of MIN_MATCH bytes that lies further back than TOO_FAR is dropped.
drop_too_far(s, found) ==
    IF found.len = MIN_MATCH /\ s - found.start > TOO_FAR
    THEN [len |-> MIN_MATCH - 1, start |-> found.start]
    ELSE found

\* The match found at strstart = s, hash_head being the head of its hash
\* chain: the longest match when the previous one is short enough to look
\* for a better one, none otherwise; after drop_too_far.
find_match(d, st, s, hash_head) ==
    drop_too_far(s, IF /\ hash_head # NIL
                       /\ st.match_length < max_lazy_match
                       /\ s - hash_head <= MAX_DIST
                    THEN longest_match(d, s, st.match_length, st.match_start)
                    ELSE [len |-> MIN_MATCH - 1, start |-> st.match_start])

\* The previous match is sent when the match m at s is not longer;
\* otherwise the byte before s is sent as a literal (when one is pending) and
\* m waits for the next turn.
send_or_defer(d, st, s, m) ==
    IF st.match_length >= MIN_MATCH /\ m.len <= st.match_length
    THEN [match_length |-> MIN_MATCH - 1, match_start |-> m.start,
          match_available |-> FALSE, skip |-> st.match_length - 2,
          out |-> Append(st.out, Match(st.match_length, s - 1 - st.match_start))]
    ELSE [match_length |-> m.len, match_start |-> m.start,
          match_available |-> TRUE, skip |-> 0,
          out |-> IF st.match_available THEN Append(st.out, Literal(d[s])) ELSE st.out]

\* One turn of the loop of deflate_slow at strstart = s, on the state st of
\* the loop: match_length and match_start of the previous turn,
\* match_available, the symbols sent so far (out), and in skip the number of
\* positions that the last match still covers (the loop inserts them in the
\* hash chains and does not stop at them).  The turn at s = Len(d) is the
\* flush of the literal that is still pending.
deflate_step(d, st, s) ==
    IF st.skip > 0 THEN [st EXCEPT !.skip = @ - 1]
    ELSE IF s >= Len(d)
    THEN IF st.match_available
         THEN [st EXCEPT !.out = Append(@, Literal(d[s])), !.match_available = FALSE]
         ELSE st
    ELSE send_or_defer(d, st, s, find_match(d, st, s, HashHead(d, s)))

RECURSIVE deflate_turns(_, _, _, _)
deflate_turns(d, st, lo, hi) ==
    IF lo = hi THEN deflate_step(d, st, lo)
    ELSE LET mid == (lo + hi) \div 2
             left == deflate_turns(d, st, lo, mid)
         IN  CASE left.skip >= 0 -> deflate_turns(d, left, mid + 1, hi)

\* deflate_slow: the literals and matches of the block, with lazy evaluation
\* of matches.
deflate_slow(d) ==
    deflate_turns(d, [match_length |-> MIN_MATCH - 1, match_start |-> 0,
                      match_available |-> FALSE, skip |-> 0, out |-> <<>>],
                  0, Len(d)).out

Pow2(e) == <<1, 2, 4, 8, 16, 32, 64, 128, 256, 512, 1024, 2048, 4096, 8192, 16384, 32768>>[e + 1]

RECURSIVE Log2(_)
Log2(x) == IF x <= 1 THEN 0 ELSE 1 + Log2(x \div 2)

\* A Huffman code goes out most significant bit first, extra bits least
\* significant bit first.
CodeBits(code, nb) == [i \in 1..nb |-> (code \div Pow2(nb - i)) % 2]
ExtraBits(v, nb) == [i \in 1..nb |-> (v \div Pow2(i - 1)) % 2]

\* The fixed code of a literal/length symbol (static_ltree)
LitBits(sym) ==
    IF sym < 144 THEN CodeBits(48 + sym, 8)
    ELSE IF sym < 256 THEN CodeBits(400 + (sym - 144), 9)
    ELSE IF sym < 280 THEN CodeBits(sym - 256, 7)
    ELSE CodeBits(192 + (sym - 280), 8)

\* Length code and extra bits of a match length (length_code, extra_lbits)
LenBits(l) ==
    LET lc == l - MIN_MATCH
        e == Log2(lc) - 2
    IN  IF l = MAX_MATCH THEN LitBits(285)
        ELSE IF lc < 8 THEN LitBits(257 + lc)
        ELSE LitBits(261 + 4 * e + ((lc - Pow2(e + 2)) \div Pow2(e)))
               \o ExtraBits(lc % Pow2(e), e)

\* Distance code and extra bits (d_code, extra_dbits, static_dtree)
DistBits(dist) ==
    LET dd == dist - 1
        e == Log2(dd) - 1
    IN  IF dd < 4 THEN CodeBits(dd, 5)
        ELSE CodeBits(2 * e + 2 + ((dd \div Pow2(e)) % 2), 5) \o ExtraBits(dd % Pow2(e), e)

SymbolBits(t) == IF t.len = 0 THEN LitBits(t.lit) ELSE LenBits(t.len) \o DistBits(t.dist)

\* The bits of the symbols syms[lo..hi], in order.
RECURSIVE BlockBits(_, _, _)
BlockBits(syms, lo, hi) ==
    IF lo > hi THEN <<>>
    ELSE IF lo = hi THEN SymbolBits(syms[lo])
    ELSE BlockBits(syms, lo, (lo + hi) \div 2) \o BlockBits(syms, (lo + hi) \div 2 + 1, hi)

\* Bits fill each byte from its least significant bit; the last byte is
\* padded with zeros (bi_windup).
PackBits(bits) ==
    LET B(i) == IF i <= Len(bits) THEN bits[i] ELSE 0
    IN  [k \in 1..((Len(bits) + 7) \div 8) |->
            B(8 * k - 7) + 2 * B(8 * k - 6) + 4 * B(8 * k - 5) + 8 * B(8 * k - 4)
              + 16 * B(8 * k - 3) + 32 * B(8 * k - 2) + 64 * B(8 * k - 1) + 128 * B(8 * k)]

\* The block header: BFINAL = 1, then BTYPE, least significant bit first.
STORED_BLOCK == 0
STATIC_TREES == 1
BlockHeader(btype) == <<1, btype % 2, btype \div 2>>

\* The codes of the symbols syms and of the end of the block
SymbolsBits(syms) == BlockBits(syms, 1, Len(syms)) \o LitBits(256)

\* _tr_flush_block of the only block, body being its symbols in the fixed
\* codes: stored when that is no longer than the block with the fixed codes.
flush_block(data, body) ==
    IF Len(data) + 4 <= (Len(body) + 3 + 7) \div 8
    THEN PackBits(BlockHeader(STORED_BLOCK)) \o LE16(Len(data))
           \o LE16(65535 - Len(data)) \o data
    ELSE PackBits(BlockHeader(STATIC_TREES) \o body)

\* zlib.compress(data, 6, wbits=-15)
Deflate(data) == flush_block(data, SymbolsBits(deflate_slow(data)))

\* CRC-32 (zlib.crc32), table driven, four bits at a time; a 32-bit value is
\* its four bytes, least significant byte first.
Xor8(a, b) ==
    ((a + b) % 2) + 2 * (((a \div 2) + (b \div 2)) % 2)
      + 4 * (((a \div 4) + (b \div 4)) % 2) + 8 * (((a \div 8) + (b \div 8)) % 2)
      + 16 * (((a \div 16) + (b \div 16)) % 2) + 32 * (((a \div 32) + (b \div 32)) % 2)
      + 64 * (((a \div 64) + (b \div 64)) % 2) + 128 * (((a \div 128) + (b \div 128)) % 2)

Xor32(a, b) == <<Xor8(a[1], b[1]), Xor8(a[2], b[2]), Xor8(a[3], b[3]), Xor8(a[4], b[4])>>

ShiftRight4(c) ==
    <<c[1] \div 16 + 16 * (c[2] % 16), c[2] \div 16 + 16 * (c[3] % 16),
      c[3] \div 16 + 16 * (c[4] % 16), c[4] \div 16>>

\* The remainders of the 16 four-bit values for the polynomial 0xEDB88320
CrcTable ==
    <<<<0, 0, 0, 0>>, <<100, 16, 183, 29>>, <<200, 32, 110, 59>>, <<172, 48, 217, 38>>,
      <<144, 65, 220, 118>>, <<244, 81, 107, 107>>, <<88, 97, 178, 77>>, <<60, 113, 5, 80>>,
      <<32, 131, 184, 237>>, <<68, 147, 15, 240>>, <<232, 163, 214, 214>>, <<140, 179, 97, 203>>,
      <<176, 194, 100, 155>>, <<212, 210, 211, 134>>, <<120, 226, 10, 160>>, <<28, 242, 189, 189>>>>

\* crc = table[(crc ^ nibble) & 15] ^ (crc >> 4)
CrcNibble(c, nibble) == Xor32(CrcTable[Xor8(c[1] % 16, nibble) + 1], ShiftRight4(c))

CrcByte(c, byte) == CrcNibble(CrcNibble(c, byte % 16), byte \div 16)

\* The CRC register c after the bytes data[lo..hi] have gone through it; the
\* range is folded in halves so that the evaluation stays shallow.
RECURSIVE CrcUpdate(_, _, _, _)
CrcUpdate(c, data, lo, hi) ==
    IF lo > hi THEN c
    ELSE IF lo = hi THEN CrcByte(c, data[lo])
    ELSE LET mid == (lo + hi) \div 2
             left == CrcUpdate(c, data, lo, mid)
         IN  CASE Len(left) = 4 -> CrcUpdate(left, data, mid + 1, hi)

\* The four bytes of struct.pack("<L", zlib.crc32(data))
Crc32(data) == Xor32(CrcUpdate(<<255, 255, 255, 255>>, data, 1, Len(data)), <<255, 255, 255, 255>>)

\* gzip.compress(data): one complete, self-contained gzip member
GzipCompress(data, mtime) ==
    GzHeader(mtime) \o Deflate(data) \o Crc32(data) \o LE32(Len(data))

\* ------------------------------------------------------------------ inputs
\* Lines as the file iterator delivers them: every line ends with "\n",
\* except possibly the last line of the input.
LineA == <<97, 10>>
LineB == <<98, 32, 123, 120, 125, 13, 10>>
LineF == <<32, 255, 10>>
LineC == <<99>>
LineList == <<LineA, LineB, LineF>>
Lines == {LineList[i] : i \in 1..Len(LineList)}
Unterminated == {LineC}

ShortInputs ==
    {<<>>} \cup
    UNION {{pre \o <<l>> : pre \in [1..(n - 1) -> Lines], l \in Lines \cup Unterminated}
             : n \in 1..MaxLines}

idx_buffer_size == 100

\* Inputs long enough to fill the index batch once and twice over.
LongLens == {idx_buffer_size, 2 * idx_buffer_size + MaxChunkSize}
LongInput(n) == [i \in 1..n |-> LineList[((i - 1) % Len(LineList)) + 1]]
LongInputs == {LongInput(n) : n \in LongLens}

ChunkSizes == 0..MaxChunkSize

Bases == <<<<"w">>, <<"0", "1">>, <<>>>>

\* The runs: every short input under the first base name, the inputs of at
\* most one line under the other base names too, the long inputs under the
\* first base name.
Runs ==
    (ShortInputs \X {Bases[1]})
        \cup ({in \in ShortInputs : Len(in) <= 1} \X {Bases[k] : k \in 2..Len(Bases)})
        \cup (LongInputs \X {Bases[1]})


\* time.time() when the run starts, in seconds since the epoch
StartTimes == {MaxTime - 1}

\* shard_size_mb is a number of megabytes, num/den, or float('inf')
Finite(n, d) == [inf |-> FALSE, num |-> n, den |-> d]
Infinite == [inf |-> TRUE, num |-> 0, den |-> 1]
MiB == 1024 * 1024


\* main_shard_size ignoring the --single-shard flag.
main_shard_size_ignore(single_shard, shard_size) == Finite(shard_size, 1)

\* main: --single-shard replaces --shard-size by float('inf')
main_shard_size(single_shard, shard_size) ==
    IF single_shard THEN Infinite ELSE Finite(shard_size, 1)

\* --shard-size values: whole megabytes (type=int)
ShardSizeArgs == {0, 1}

\* The command lines: --single-shard with or without a --shard-size.
MainArgs ==
    {<<FALSE, sz>> : sz \in ShardSizeArgs} \cup {<<TRUE, 0>>}

\* shard_size_mb of a caller of cdxj_to_zipnum that passes a fraction of a
\* megabyte: target sizes within reach of the inputs above.
DirectShardSizes == {Finite(MaxThreshold \div 2, MiB), Finite(MaxThreshold, MiB)}

\* shard_size_mb of a caller whose target size is reached by the one-line
\* members of a long input right after a full batch of index entries, so that
\* batch writes and rollover writes of the index alternate.
\* It is 75/32768 MB, that is 24 bytes for each entry of a batch.
LongShardSizes == {Finite((3 * idx_buffer_size) \div 4, MiB \div 32)}

\* target_shard_size = shard_size_mb * 1024 * 1024
target_shard_size(mb) ==
    [inf |-> mb.inf, val |-> IF mb.inf THEN 0 ELSE (mb.num * 1024 * 1024) \div mb.den]

\* ReachedTarget with a strict comparison.
ReachedTarget_strict(offset, target) == ~target.inf /\ offset > target.val

\* end_offset >= target_shard_size
ReachedTarget(offset, target) == ~target.inf /\ offset >= target.val

\* get_shard_path
get_shard_path(b, shard_num, is_single) ==
    IF is_single
    THEN PathJoin(output_dir, b \o CdxGz)
    ELSE PathJoin(output_dir, b \o <<"-">> \o Dec02(shard_num + 1) \o CdxGz)

idx_path(b) == PathJoin(output_dir, b \o <<".", "i", "d", "x">>)
loc_path(b) == PathJoin(output_dir, b \o <<".", "l", "o", "c">>)

\* f"{pre}\t{shard_name_no_ext}\t{start_offset}\t{comp_len}\t{current_shard + 1}\n"
IdxEntry(pre, name, start, len, num) ==
    pre \o <<"\t">> \o name \o <<"\t">> \o Dec(start) \o <<"\t">> \o Dec(len)
        \o <<"\t">> \o Dec(num) \o <<"\n">>

\* f"{shard_name}\t{basename}\n"
LocEntry(path) ==
    Replace(Basename(path), CdxGz) \o <<"\t">> \o Basename(path) \o <<"\n">>

\* ------------------------------------------------------------------- state
VARIABLES
    input,           \* the lines of the input, in order
    chunk_size,      \* lines per chunk
    single_shard,    \* the --single-shard flag
    shard_size_mb,   \* target shard size handed to cdxj_to_zipnum
    base,            \* base name of the outputs
    clock,           \* the time of day when it was last read
    pc,              \* position of cdxj_to_zipnum
    gen_pc,          \* position of the generator stream_chunks_from_input
    fh_pos,          \* lines of the input consumed
    fh_open,         \* the input handle is open
    chunk,           \* the generator's line buffer
    chunk_idx,       \* the generator's chunk counter
    chunk_lines,     \* the chunk the loop body is processing
    created_shards,  \* paths of the shards created, in order
    current_shard,   \* 0-based number of the current shard
    current_raw_fh,  \* the shard handle: path, position, open, pending bytes
    end_offset,      \* position of the shard handle after the last write
    open_shards,     \* paths of the shard files that have an open handle
    idx_buffer,      \* index entries not yet written
    idxf,            \* the index file handle: open, pending bytes of its
                     \* text layer and of its buffer
    fs               \* the output directory: file path -> content
                     \* that has reached the file

args == <<input, chunk_size, single_shard, shard_size_mb, base>>
gen == <<gen_pc, fh_pos, fh_open, chunk, chunk_idx>>
shard == <<created_shards, current_shard, current_raw_fh, end_offset, open_shards>>
vars == <<args, clock, pc, gen, chunk_lines, shard, idx_buffer, idxf, fs>>

NoHandle == [path |-> <<>>, pos |-> 0, open |-> FALSE, buf |-> <<>>]
NoIdx == [open |-> FALSE, pending |-> <<>>, buf |-> <<>>]

\* A run is started from the command line (main) or by a caller of
\* cdxj_to_zipnum.
Init ==
    /\ \E r \in Runs :
          /\ input = r[1]
          /\ base = r[2]
    /\ chunk_size \in ChunkSizes
    /\ \/ \E a \in MainArgs :
             /\ single_shard = a[1]
             /\ shard_size_mb = main_shard_size(a[1], a[2])
       \/ /\ single_shard = FALSE
          /\ shard_size_mb \in DirectShardSizes
       \/ /\ input \in LongInputs
          /\ single_shard = FALSE
          /\ shard_size_mb \in LongShardSizes
    /\ clock \in StartTimes
    /\ pc = "start"
    /\ gen_pc = "unstarted"
    /\ fh_pos = 0
    /\ fh_open = FALSE
    /\ chunk = <<>>
    /\ chunk_idx = 0
    /\ chunk_lines = <<>>
    /\ created_shards = <<>>
    /\ current_shard = 0
    /\ current_raw_fh = NoHandle
    /\ end_offset = 0
    /\ open_shards = {}
    /\ idx_buffer = <<>>
    /\ idxf = NoIdx
    /\ fs = [p \in {} |-> <<>>]

\* ------------------------------------------------------------- file system
\* open(path, 'w'): the file exists and is empty
Create(dir, path) == [q \in DOMAIN dir \cup {path} |-> IF q = path THEN <<>> ELSE dir[q]]

\* the bytes data reach the end of the file
WriteTo(dir, path, data) == [dir EXCEPT ![path] = @ \o data]

\* os.rename(src, dst)
Rename(dir, src, dst) ==
    [q \in (DOMAIN dir \ {src}) \cup {dst} |-> IF q = dst THEN dir[src] ELSE dir[q]]

\* open(..., buffering=65536)
BufferSize == 65536

\* write(data) on a buffered handle with buf pending: data that fits in the
\* buffer stays pending; otherwise the pending bytes are written out first,
\* and data itself too when it is larger than the buffer.
BufferedWrite(dir, path, buf, data) ==
    IF Len(buf) + Len(data) <= BufferSize THEN [dir |-> dir, buf |-> buf \o data]
    ELSE IF Len(data) > BufferSize THEN [dir |-> WriteTo(dir, path, buf \o data), buf |-> <<>>]
    ELSE [dir |-> WriteTo(dir, path, buf), buf |-> data]

\* The text layer of a handle opened in text mode collects this many bytes
\* before it hands them to the buffer.
TextChunkSize == 8192

\* write(text) on the index handle h: the text layer hands its pending
\* bytes on first when text would take them beyond TextChunkSize, and hands
\* on what it holds after that when it has reached TextChunkSize.
TextWrite(dir, path, h, text) ==
    LET b == Encode(text)
        over == Len(h.pending) + Len(b) > TextChunkSize
        w1 == IF over THEN BufferedWrite(dir, path, h.buf, h.pending)
              ELSE [dir |-> dir, buf |-> h.buf]
        pending == IF over THEN b ELSE h.pending \o b
        w2 == BufferedWrite(w1.dir, path, w1.buf, pending)
    IN  IF Len(pending) >= TextChunkSize
        THEN [dir |-> w2.dir, h |-> [h EXCEPT !.pending = <<>>, !.buf = w2.buf]]
        ELSE [dir |-> w1.dir, h |-> [h EXCEPT !.pending = pending, !.buf = w1.buf]]

\* close() writes the pending bytes out and closes the file; when the write
\* fails the file is closed all the same, with the first n pending bytes in
\* it, and the rest is lost.
CloseFile(dir, path, buf, n) == WriteTo(dir, path, SubSeq(buf, 1, n))

\* The numbers of pending bytes close() may put in the file: all of them
\* or, when its write fails, any number short of that.
Closes(buf) ==
    IF Len(input) <= MaxFaultLines /\ Len(Join(input)) <= MaxFaultBytes
    THEN 0..Len(buf)
    ELSE {Len(buf)}

\* The number of pending bytes a failing write has put in the file
PartialWrites(buf) == Closes(buf) \ {Len(buf)}

\* The bytes a text handle has not written to its file
Unwritten(h) == h.buf \o h.pending

\* The with statement of the index file is left by an exception:
\* idxf.close() puts n of the pending bytes in the file; when that is not
\* all of them close() raises in its turn, and the function is left all the
\* same.
CloseIdx(dir, h, n) == CloseFile(dir, idx_path(base), Unwritten(h), n)

\* The numbers of pending bytes idxf.close() may put in the file
IdxCloses(h) == Closes(Unwritten(h))

\* time.time() inside gzip.compress: the clock has advanced by a second
\* since it was last read, or it has not.
Now == {t \in {clock, clock + 1} : t = clock \/ (t <= MaxTime /\ Len(input) <= MaxFaultLines)}

\* ----------------------------------------------------------------- actions
\* if idx_buffer: idxf.write(''.join(idx_buffer))
Flush_none(dir, h, buffer) == [dir |-> dir, h |-> h]

Flush(dir, h, buffer) ==
    IF buffer # <<>> THEN TextWrite(dir, idx_path(base), h, Join(buffer))
    ELSE [dir |-> dir, h |-> h]

\* OpenShard carrying the offset of the previous shard over.
OpenShard_keep_pos(shard_path) ==
    [path |-> shard_path, pos |-> current_raw_fh.pos, open |-> TRUE, buf |-> <<>>]

\* open(shard_path, 'wb'): a handle positioned at the start of an empty file
OpenShard(shard_path) == [path |-> shard_path, pos |-> 0, open |-> TRUE, buf |-> <<>>]

\* CloseHandle that leaves the handle open.
CloseHandle_leak(handles, path) == handles

\* current_raw_fh.close()
CloseHandle(handles, path) == handles \ {path}

\* BatchFull with a strict comparison: the batch is written at 101 entries.
BatchFull_strict(buffer) == Len(buffer) > idx_buffer_size

\* len(idx_buffer) >= idx_buffer_size
BatchFull(buffer) == Len(buffer) >= idx_buffer_size

\* Tell as a running offset that is not reset when a new shard is opened.
Tell_stale(fh) == end_offset

\* current_raw_fh.tell()
Tell(fh) == fh.pos

\* ChunkFull with a strict comparison: chunks of chunk_size + 1 lines.
ChunkFull_strict(c, n) == Len(c) > n

\* len(chunk) >= chunk_size
ChunkFull(c, n) == Len(c) >= n

\* OpenFirstShard that opens no shard until a chunk arrives.
OpenFirstShard_lazy ==
    /\ pc = "start"
    /\ idx_buffer' = <<>>
    /\ pc' = "open_idx"
    /\ UNCHANGED <<args, clock, gen, chunk_lines, shard, idxf, fs>>

\* cdxj_to_zipnum up to the index file: the first shard is opened eagerly.
OpenFirstShard ==
    /\ pc = "start"
    /\ LET shard_path == get_shard_path(base, current_shard, FALSE)
       IN  /\ created_shards' = Append(created_shards, shard_path)
           /\ current_raw_fh' = OpenShard(shard_path)
           /\ open_shards' = open_shards \cup {shard_path}
           /\ fs' = Create(fs, shard_path)
    /\ idx_buffer' = <<>>
    /\ pc' = "open_idx"
    /\ UNCHANGED <<args, clock, gen, chunk_lines, current_shard, end_offset, idxf>>

\* with open(idx_name, 'w') as idxf
OpenIdx ==
    /\ pc = "open_idx"
    /\ fs' = Create(fs, idx_path(base))
    /\ idxf' = [open |-> TRUE, pending |-> <<>>, buf |-> <<>>]
    /\ pc' = "next"
    /\ UNCHANGED <<args, clock, gen, chunk_lines, shard, idx_buffer>>

\* The first next() on the generator: the input is opened.
GenStart ==
    /\ pc = "next"
    /\ gen_pc = "unstarted"
    /\ chunk' = <<>>
    /\ chunk_idx' = 0
    /\ fh_open' = TRUE
    /\ gen_pc' = "for"
    /\ UNCHANGED <<args, clock, pc, fh_pos, chunk_lines, shard, idx_buffer, idxf, fs>>

\* next() on a generator suspended at the yield inside the loop
GenResume ==
    /\ pc = "next"
    /\ gen_pc = "yielded"
    /\ chunk_idx' = chunk_idx + 1
    /\ chunk' = <<>>
    /\ gen_pc' = "for"
    /\ UNCHANGED <<args, clock, pc, fh_pos, fh_open, chunk_lines, shard, idx_buffer, idxf, fs>>

\* for line in fh: chunk.append(line); yield when len(chunk) >= chunk_size
GenReadLine ==
    /\ pc = "next"
    /\ gen_pc = "for"
    /\ fh_pos < Len(input)
    /\ fh_pos' = fh_pos + 1
    /\ chunk' = Append(chunk, input[fh_pos + 1])
    /\ IF ChunkFull(chunk', chunk_size)
       THEN /\ gen_pc' = "yielded"
            /\ chunk_lines' = chunk'
            /\ pc' = "body"
       ELSE UNCHANGED <<gen_pc, chunk_lines, pc>>
    /\ UNCHANGED <<args, clock, fh_open, chunk_idx, shard, idx_buffer, idxf, fs>>

\* GenExhausted with an unconditional trailing yield.
GenExhausted_always_yield ==
    /\ pc = "next"
    /\ gen_pc = "for"
    /\ fh_pos = Len(input)
    /\ fh_open' = FALSE
    /\ gen_pc' = "yielded_last"
    /\ chunk_lines' = chunk
    /\ pc' = "body"
    /\ UNCHANGED <<args, clock, fh_pos, chunk, chunk_idx, shard, idx_buffer, idxf, fs>>

\* The input is exhausted: it is closed, and a partial chunk is yielded.
GenExhausted ==
    /\ pc = "next"
    /\ gen_pc = "for"
    /\ fh_pos = Len(input)
    /\ fh_open' = FALSE
    /\ IF chunk # <<>>
       THEN /\ gen_pc' = "yielded_last"
            /\ chunk_lines' = chunk
            /\ pc' = "body"
       ELSE /\ gen_pc' = "finished"
            /\ pc' = "flush"
            /\ UNCHANGED chunk_lines
    /\ UNCHANGED <<args, clock, fh_pos, chunk, chunk_idx, shard, idx_buffer, idxf, fs>>

\* next() on a generator suspended at the final yield: StopIteration
GenStop ==
    /\ pc = "next"
    /\ gen_pc = "yielded_last"
    /\ gen_pc' = "finished"
    /\ pc' = "flush"
    /\ UNCHANGED <<args, clock, fh_pos, fh_open, chunk, chunk_idx, chunk_lines, shard,
                   idx_buffer, idxf, fs>>

\* if len(idx_buffer) >= idx_buffer_size: the batch buffered is written to
\* the index file of the directory dir and cleared.
WriteBatch(dir, buffered) ==
    IF BatchFull(buffered)
    THEN /\ fs' = Flush(dir, idxf, buffered).dir
         /\ idxf' = Flush(dir, idxf, buffered).h
         /\ idx_buffer' = <<>>
    ELSE /\ fs' = dir
         /\ idx_buffer' = buffered
         /\ UNCHANGED idxf

\* The loop body after gzip.compress, at the time now: compressed_chunk is
\* appended to the current shard and its index entry is buffered; a full
\* batch is written to the index file.
WriteChunk(now, compressed_chunk) ==
    LET start_offset == Tell(current_raw_fh)
        written == BufferedWrite(fs, current_raw_fh.path, current_raw_fh.buf,
                                 compressed_chunk)
        end == start_offset + Len(compressed_chunk)
        comp_len == end - start_offset
        pre == extract_prejson(chunk_lines[1])
        shard_basename == Basename(created_shards[current_shard + 1])
        shard_name_no_ext == Replace(shard_basename, CdxGz)
        buffered == Append(idx_buffer,
                           IdxEntry(pre, shard_name_no_ext, start_offset, comp_len,
                                    current_shard + 1))
    IN  /\ clock' = now
        /\ current_raw_fh' = [current_raw_fh EXCEPT !.pos = end, !.buf = written.buf]
        /\ end_offset' = end
        /\ WriteBatch(written.dir, buffered)

\* The loop body up to the batch flush: compress the chunk as one gzip
\* member stamped with the time of the call, append it to the current
\* shard, buffer its index entry.
AppendChunk ==
    /\ pc = "body"
    /\ \E now \in Now : WriteChunk(now, GzipCompress(Join(chunk_lines), now))
    /\ pc' = "check"
    /\ UNCHANGED <<args, gen, chunk_lines, created_shards, current_shard, open_shards>>

\* end_offset >= target_shard_size: the index batch is written, the shard
\* is closed with n of its pending bytes reaching the file (an error of
\* close() is swallowed, the run goes on), and the next shard is opened; when
\* that open() raises, cdxj_to_zipnum is left and the index file is closed
\* by its with statement, m of its pending bytes reaching the file.
RolloverStep(n, opened, m) ==
    /\ pc = "check"
    /\ ReachedTarget(end_offset, target_shard_size(shard_size_mb))
    /\ LET shard_path == get_shard_path(base, current_shard + 1, FALSE)
           flushed == Flush(fs, idxf, idx_buffer)
           closed == CloseFile(flushed.dir, current_raw_fh.path, current_raw_fh.buf, n)
       IN  /\ idx_buffer' = <<>>
           /\ current_shard' = current_shard + 1
           /\ created_shards' = Append(created_shards, shard_path)
           /\ IF opened
              THEN /\ current_raw_fh' = OpenShard(shard_path)
                   /\ open_shards' = CloseHandle(open_shards, current_raw_fh.path)
                                        \cup {shard_path}
                   /\ fs' = Create(closed, shard_path)
                   /\ idxf' = flushed.h
                   /\ pc' = "next"
              ELSE /\ current_raw_fh' = [current_raw_fh EXCEPT !.open = FALSE, !.buf = <<>>]
                   /\ open_shards' = CloseHandle(open_shards, current_raw_fh.path)
                   /\ m \in IdxCloses(flushed.h)
                   /\ fs' = CloseIdx(closed, flushed.h, m)
                   /\ idxf' = NoIdx
                   /\ pc' = "failed"
    /\ UNCHANGED <<args, clock, gen, chunk_lines, end_offset>>

\* Rollover, every pending byte reaches the shard file.
Rollover == RolloverStep(Len(current_raw_fh.buf), TRUE, 0)

\* Rollover, and close() of the shard raises: the exception is swallowed.
RolloverCloseFails ==
    /\ pc = "check"
    /\ \E n \in PartialWrites(current_raw_fh.buf) : RolloverStep(n, TRUE, 0)

\* Rollover, and open() of the next shard raises; close() of the shard
\* (swallowed) and of the index file may have failed as well.
FailRolloverOpen ==
    /\ pc = "check"
    /\ fh_pos <= MaxFaultLines
    /\ \E n \in Closes(current_raw_fh.buf) :
          \E m \in IdxCloses(Flush(fs, idxf, idx_buffer).h) : RolloverStep(n, FALSE, m)

\* The shard is still below the target size.
NoRollover ==
    /\ pc = "check"
    /\ ~ReachedTarget(end_offset, target_shard_size(shard_size_mb))
    /\ pc' = "next"
    /\ UNCHANGED <<args, clock, gen, chunk_lines, shard, idx_buffer, idxf, fs>>

\* After the loop: the remaining index entries are written and the index
\* file is closed by the with statement, n of its pending bytes
\* reaching the file; an error of that close() leaves cdxj_to_zipnum.
FlushIdxStep(n) ==
    /\ pc = "flush"
    /\ LET flushed == Flush(fs, idxf, idx_buffer)
       IN  /\ n <= Len(Unwritten(flushed.h))
           /\ fs' = CloseFile(flushed.dir, idx_path(base), Unwritten(flushed.h), n)
           /\ pc' = IF n = Len(Unwritten(flushed.h)) THEN "close" ELSE "failed"
    /\ idxf' = NoIdx
    /\ UNCHANGED <<args, clock, gen, chunk_lines, shard, idx_buffer>>

FlushIdx == FlushIdxStep(Len(Unwritten(Flush(fs, idxf, idx_buffer).h)))

\* Close final shard file: n pending bytes reach it.
CloseShardStep(n) ==
    /\ pc = "close"
    /\ fs' = CloseFile(fs, current_raw_fh.path, current_raw_fh.buf, n)
    /\ current_raw_fh' = [current_raw_fh EXCEPT !.open = FALSE, !.buf = <<>>]
    /\ open_shards' = CloseHandle(open_shards, current_raw_fh.path)
    /\ pc' = "rename"
    /\ UNCHANGED <<args, clock, gen, chunk_lines, created_shards, current_shard, end_offset,
                   idx_buffer, idxf>>

CloseShard == CloseShardStep(Len(current_raw_fh.buf))

\* close() of the final shard raises: the exception is swallowed.
CloseShardFails ==
    /\ pc = "close"
    /\ \E n \in PartialWrites(current_raw_fh.buf) : CloseShardStep(n)

\* RenameSingle that renames the file and keeps the old path in created_shards.
RenameSingle_stale_path ==
    /\ pc = "rename"
    /\ IF Len(created_shards) = 1 /\ ~EndsWith(created_shards[1], base \o CdxGz)
       THEN fs' = Rename(fs, created_shards[1], get_shard_path(base, 0, TRUE))
       ELSE UNCHANGED fs
    /\ pc' = "loc"
    /\ UNCHANGED <<args, clock, gen, chunk_lines, shard, idx_buffer, idxf>>

\* If only one shard was created, rename it to the unnumbered name.
RenameSingle ==
    /\ pc = "rename"
    /\ IF Len(created_shards) = 1 /\ ~EndsWith(created_shards[1], base \o CdxGz)
       THEN LET simple_name == get_shard_path(base, 0, TRUE)
            IN  /\ fs' = Rename(fs, created_shards[1], simple_name)
                /\ created_shards' = [created_shards EXCEPT ![1] = simple_name]
       ELSE UNCHANGED <<fs, created_shards>>
    /\ pc' = "loc"
    /\ UNCHANGED <<args, clock, gen, chunk_lines, current_shard, current_raw_fh, end_offset,
                   open_shards, idx_buffer, idxf>>

\* The bytes of the location file: one record per shard path
LocText(paths) == Encode(Join([i \in 1..Len(paths) |-> LocEntry(paths[i])]))

\* Write loc file: it is created empty, its records (less than a buffer in
\* the runs here) are pending until the with statement closes it, n of their
\* bytes reach the file; an error of that close(), or of the print that
\* follows it, leaves cdxj_to_zipnum.
WriteLocStep(n, printed) ==
    /\ pc = "loc"
    /\ LET text == LocText(created_shards)
       IN  /\ n <= Len(text)
           /\ fs' = CloseFile(Create(fs, loc_path(base)), loc_path(base), text, n)
           /\ pc' = IF n = Len(text) /\ printed THEN "done" ELSE "failed"
    /\ UNCHANGED <<args, clock, gen, chunk_lines, shard, idx_buffer, idxf>>

WriteLoc == WriteLocStep(Len(LocText(created_shards)), TRUE)

\* ---------------------------------------------------------------- failures
\* An exception leaves cdxj_to_zipnum: a with statement that is being
\* unwound closes its file, nothing else is closed.  The state is the one
\* in which the exception leaves the function: the bytes pending in a
\* handle that is left open are still pending.

\* ensure_dir raises.
FailEnsureDir ==
    /\ pc = "start"
    /\ pc' = "failed"
    /\ UNCHANGED <<args, clock, gen, chunk_lines, shard, idx_buffer, idxf, fs>>

\* open() of the first shard raises: its path is in created_shards already.
FailOpenFirstShard ==
    /\ pc = "start"
    /\ created_shards' = Append(created_shards, get_shard_path(base, current_shard, FALSE))
    /\ pc' = "failed"
    /\ UNCHANGED <<args, clock, gen, chunk_lines, current_shard, current_raw_fh, end_offset,
                   open_shards, idx_buffer, idxf, fs>>

\* open(idx_name, 'w') raises: the with block is never entered.
FailOpenIdx ==
    /\ pc = "open_idx"
    /\ pc' = "failed"
    /\ UNCHANGED <<args, clock, gen, chunk_lines, shard, idx_buffer, idxf, fs>>

\* open_input_path raises at the first next(): the generator ends, the
\* index file is closed by its with statement.
FailOpenInput ==
    /\ pc = "next"
    /\ gen_pc = "unstarted"
    /\ gen_pc' = "finished"
    /\ \E n \in IdxCloses(idxf) : fs' = CloseIdx(fs, idxf, n)
    /\ idxf' = NoIdx
    /\ pc' = "failed"
    /\ UNCHANGED <<args, clock, fh_pos, fh_open, chunk, chunk_idx, chunk_lines, shard,
                   idx_buffer>>

\* Reading from the input raises inside the generator, at a line or at the
\* read that finds the end of the input: its with statement closes the
\* input, the index file is closed by its with statement.
FailRead ==
    /\ pc = "next"
    /\ gen_pc = "for"
    /\ fh_pos <= MaxFaultLines
    /\ fh_open' = FALSE
    /\ gen_pc' = "finished"
    /\ \E n \in IdxCloses(idxf) : fs' = CloseIdx(fs, idxf, n)
    /\ idxf' = NoIdx
    /\ pc' = "failed"
    /\ UNCHANGED <<args, clock, fh_pos, chunk, chunk_idx, chunk_lines, shard, idx_buffer>>

\* gzip.compress raises in the loop body (the writes that follow it stay in
\* the buffers of the handles): the index file is closed by its with
\* statement; the generator stays suspended at its yield.
FailAppend ==
    /\ pc = "body"
    /\ fh_pos <= MaxFaultLines
    /\ \E n \in IdxCloses(idxf) : fs' = CloseIdx(fs, idxf, n)
    /\ idxf' = NoIdx
    /\ pc' = "failed"
    /\ UNCHANGED <<args, clock, gen, chunk_lines, shard, idx_buffer>>

\* close() of the index file raises when the with statement is left after
\* the loop.
FailFlushIdx ==
    /\ pc = "flush"
    /\ \E n \in PartialWrites(Unwritten(Flush(fs, idxf, idx_buffer).h)) : FlushIdxStep(n)

\* os.rename raises.
FailRename ==
    /\ pc = "rename"
    /\ fh_pos <= MaxFaultLines
    /\ Len(created_shards) = 1 /\ ~EndsWith(created_shards[1], base \o CdxGz)
    /\ pc' = "failed"
    /\ UNCHANGED <<args, clock, gen, chunk_lines, shard, idx_buffer, idxf, fs>>

\* open(loc_name, 'w') raises.
FailOpenLoc ==
    /\ pc = "loc"
    /\ fh_pos <= MaxFaultLines
    /\ pc' = "failed"
    /\ UNCHANGED <<args, clock, gen, chunk_lines, shard, idx_buffer, idxf, fs>>

\* close() of the location file raises when its with statement is left.
FailWriteLoc ==
    /\ pc = "loc"
    /\ \E n \in PartialWrites(LocText(created_shards)) : WriteLocStep(n, TRUE)

\* print raises (standard output is unbuffered and cannot be written): every
\* file is complete and cdxj_to_zipnum is left by the exception.
FailPrint ==
    /\ fh_pos <= MaxFaultLines
    /\ WriteLocStep(Len(LocText(created_shards)), FALSE)

Next ==
    \/ OpenFirstShard
    \/ OpenIdx
    \/ GenStart
    \/ GenResume
    \/ GenReadLine
    \/ GenExhausted
    \/ GenStop
    \/ AppendChunk
    \/ Rollover
    \/ RolloverCloseFails
    \/ NoRollover
    \/ FlushIdx
    \/ CloseShard
    \/ CloseShardFails
    \/ RenameSingle
    \/ WriteLoc
    \/ FailEnsureDir
    \/ FailOpenFirstShard
    \/ FailOpenIdx
    \/ FailOpenInput
    \/ FailRead
    \/ FailAppend
    \/ FailRolloverOpen
    \/ FailFlushIdx
    \/ FailRename
    \/ FailOpenLoc
    \/ FailWriteLoc
    \/ FailPrint

Spec == Init /\ [][Next]_vars

TypeOK == pc \in {"start", "open_idx", "next", "body", "check", "flush", "close",
                  "rename", "loc", "done", "failed"}

\* --------------------------------------------------- reading the outputs back
\* A gzip reader (RFC 1952, RFC 1951): it accepts a sequence of whole
\* members with no optional header fields, whose deflate blocks are stored
\* or use the fixed Huffman codes, and checks CRC-32 and ISIZE of each.
ByteAt(bs, p) == IF p + 1 <= Len(bs) THEN bs[p + 1] ELSE 0

\* The n bits from bit k on, the first bit least significant (n <= 13).
LsbBits(bs, k, n) ==
    ((ByteAt(bs, k \div 8) + 256 * ByteAt(bs, k \div 8 + 1) + 65536 * ByteAt(bs, k \div 8 + 2))
        \div Pow2(k % 8)) % Pow2(n)

RECURSIVE Reverse(_, _)
Reverse(v, n) == IF n = 0 THEN 0 ELSE (v % 2) * Pow2(n - 1) + Reverse(v \div 2, n - 1)

\* The n bits from bit k on as a Huffman code, the first bit most significant.
MsbBits(bs, k, n) == Reverse(LsbBits(bs, k, n), n)

\* The literal/length symbol of the fixed code that starts at bit k
FixedSymbol(bs, k) ==
    LET v7 == MsbBits(bs, k, 7)
        v8 == MsbBits(bs, k, 8)
        v9 == MsbBits(bs, k, 9)
    IN  IF v7 < 24 THEN [sym |-> 256 + v7, bits |-> 7]
        ELSE IF v8 < 192 THEN [sym |-> v8 - 48, bits |-> 8]
        ELSE IF v8 < 200 THEN [sym |-> 280 + (v8 - 192), bits |-> 8]
        ELSE [sym |-> 144 + (v9 - 400), bits |-> 9]

\* Extra bits and smallest length of a length symbol 257..285
LenExtra(sym) == IF sym < 265 \/ sym = 285 THEN 0 ELSE (sym - 261) \div 4
LenBase(sym) ==
    IF sym < 265 THEN sym - 254
    ELSE IF sym = 285 THEN MAX_MATCH
    ELSE MIN_MATCH + (4 + ((sym - 261) % 4)) * Pow2(LenExtra(sym))

\* Extra bits and smallest distance of a distance code 0..29
DistExtra(code) == IF code < 4 THEN 0 ELSE code \div 2 - 1
DistBase(code) == IF code < 4 THEN code + 1 ELSE 1 + (2 + (code % 2)) * Pow2(DistExtra(code))

\* len bytes copied from dist bytes back; the copy may overlap its source.
CopyMatch(out, len, dist) ==
    out \o [j \in 1..len |-> out[Len(out) - dist + ((j - 1) % dist) + 1]]

Bad(st) == [st EXCEPT !.mode = "bad"]

\* One step of the inflater on the bytes bs: a block header, or one symbol
\* A length symbol sym has been read, its extra bits start at bit k and the
\* distance code follows them: the match is copied.
InflateMatch(bs, st, len, kd, code) ==
    IF code > 29 \/ kd + 5 + DistExtra(code) > 8 * Len(bs)
          \/ DistBase(code) + LsbBits(bs, kd + 5, DistExtra(code)) > Len(st.out)
    THEN Bad(st)
    ELSE [st EXCEPT !.bit = kd + 5 + DistExtra(code),
                    !.out = CopyMatch(@, len, DistBase(code)
                                               + LsbBits(bs, kd + 5, DistExtra(code)))]

\* The symbol s of the fixed code has been read at st.bit: a literal, the
\* end of the block, or a length.
InflateSymbol(bs, st, s) ==
    IF s.sym < 256 THEN [st EXCEPT !.bit = @ + s.bits, !.out = Append(@, s.sym)]
    ELSE IF s.sym = 256
    THEN [st EXCEPT !.bit = @ + s.bits, !.mode = IF st.final THEN "end" ELSE "header"]
    ELSE IF s.sym > 285 THEN Bad(st)
    ELSE InflateMatch(bs, st,
                      LenBase(s.sym) + LsbBits(bs, st.bit + s.bits, LenExtra(s.sym)),
                      st.bit + s.bits + LenExtra(s.sym),
                      MsbBits(bs, st.bit + s.bits + LenExtra(s.sym), 5))

\* A block header at st.bit: BFINAL and BTYPE; a stored block, whose LEN and
\* NLEN start at byte p + 1, is copied whole.
InflateHeader(bs, st, final, btype, p, len) ==
    IF btype = STATIC_TREES
    THEN [st EXCEPT !.bit = @ + 3, !.mode = "fixed", !.final = final]
    ELSE IF /\ btype = STORED_BLOCK
            /\ p + 4 + len <= Len(bs)
            /\ ByteAt(bs, p + 2) + 256 * ByteAt(bs, p + 3) = 65535 - len
    THEN [bit |-> 8 * (p + 4 + len), out |-> st.out \o SubSeq(bs, p + 5, p + 4 + len),
          mode |-> IF final THEN "end" ELSE "header", final |-> final]
    ELSE Bad(st)

\* One step of the inflater on the bytes bs: a block header, or one symbol
\* of a block with the fixed codes.  st.bit is the position in bits.
InflateStep(bs, st) ==
    IF st.bit + 3 > 8 * Len(bs) THEN Bad(st)
    ELSE IF st.mode = "header"
    THEN InflateHeader(bs, st, LsbBits(bs, st.bit, 1) = 1, LsbBits(bs, st.bit + 1, 2),
                       (st.bit + 3 + 7) \div 8,
                       ByteAt(bs, (st.bit + 3 + 7) \div 8)
                          + 256 * ByteAt(bs, (st.bit + 3 + 7) \div 8 + 1))
    ELSE InflateSymbol(bs, st, FixedSymbol(bs, st.bit))

\* At most n steps of the inflater, until the final block has ended.
RECURSIVE Inflate(_, _, _)
Inflate(bs, st, n) ==
    IF st.mode \in {"end", "bad"} \/ n = 0 THEN st
    ELSE IF n = 1 THEN InflateStep(bs, st)
    ELSE Inflate(bs, Inflate(bs, st, n \div 2), n - n \div 2)

\* The member at byte i of bs whose deflate stream inflated to body: the
\* header is the fixed one with any MTIME, CRC-32 and ISIZE follow the stream.
CheckMember(bs, i, body, trailer) ==
    IF /\ i + 9 <= Len(bs)
       /\ SubSeq(bs, i, i + 3) = <<31, 139, 8, 0>>
       /\ body.mode = "end"
       /\ trailer + 8 <= Len(bs)
       /\ SubSeq(bs, trailer + 1, trailer + 4) = Crc32(body.out)
       /\ SubSeq(bs, trailer + 5, trailer + 8) = LE32(Len(body.out))
    THEN [ok |-> TRUE, data |-> body.out, next |-> trailer + 9]
    ELSE [ok |-> FALSE, data |-> <<>>, next |-> i]

InflatedMember(bs, i, body) == CheckMember(bs, i, body, (body.bit + 7) \div 8)

\* The member that starts at byte i of bs: its data and the position after it.
GunzipMember(bs, i) ==
    InflatedMember(bs, i, Inflate(bs, [bit |-> 8 * (i + 9), out |-> <<>>, mode |-> "header",
                                       final |-> FALSE], 8 * Len(bs)))

AddMember(st, m) ==
    [ok |-> m.ok, members |-> st.members + (IF m.ok THEN 1 ELSE 0),
     data |-> st.data \o m.data, next |-> m.next]

\* At most n members read from position st.next on.
RECURSIVE GunzipMembers(_, _, _)
GunzipMembers(bs, st, n) ==
    IF ~st.ok \/ st.next > Len(bs) \/ n = 0 THEN st
    ELSE IF n = 1 THEN AddMember(st, GunzipMember(bs, st.next))
    ELSE GunzipMembers(bs, GunzipMembers(bs, st, n \div 2), n - n \div 2)

GunzipResult(all) ==
    [ok |-> all.ok, members |-> all.members, data |-> IF all.ok THEN all.data ELSE <<>>]

\* Decompresses a byte string made of whole gzip members.  ok is FALSE when
\* the bytes are not a sequence of complete members.
Gunzip(bs) ==
    GunzipResult(GunzipMembers(bs, [ok |-> TRUE, members |-> 0, data |-> <<>>, next |-> 1],
                               Len(bs)))

\* The text of a UTF-8 file: a single byte is its character, the three
\* bytes of U+FFFD are that character.
Utf8Decode(bs) ==
    LET Inside(i) ==
            \/ i >= 2 /\ i + 1 <= Len(bs) /\ bs[i - 1] = 239 /\ bs[i] = 191 /\ bs[i + 1] = 189
            \/ i >= 3 /\ bs[i - 2] = 239 /\ bs[i - 1] = 191 /\ bs[i] = 189
        First(i) == ~Inside(i)
        at == SelectSeq([i \in 1..Len(bs) |-> i], First)
    IN  [k \in 1..Len(at) |-> Chr(bs[at[k]])]

\* str.split(sep)
Split(s, sep) ==
    LET IsSep(i) == s[i] = sep
        at == SelectSeq([i \in 1..Len(s) |-> i], IsSep)
    IN  [k \in 1..(Len(at) + 1) |->
            SubSeq(s, IF k = 1 THEN 1 ELSE at[k - 1] + 1,
                      IF k <= Len(at) THEN at[k] - 1 ELSE Len(s))]

\* The newline-terminated lines of a text file.
TextLines(text) ==
    LET parts == Split(text, "\n") IN SubSeq(parts, 1, Len(parts) - 1)

DigitValue(c) ==
    CASE c = "0" -> 0 [] c = "1" -> 1 [] c = "2" -> 2 [] c = "3" -> 3 [] c = "4" -> 4
      [] c = "5" -> 5 [] c = "6" -> 6 [] c = "7" -> 7 [] c = "8" -> 8 [] c = "9" -> 9
      [] OTHER -> -1

\* int(text) for a decimal numeral, -1 for anything else
RECURSIVE ParseDec(_)
ParseDec(ds) ==
    IF ds = <<>> \/ DigitValue(Last(ds)) = -1 THEN -1
    ELSE IF Len(ds) = 1 THEN DigitValue(ds[1])
    ELSE LET hi == ParseDec(SubSeq(ds, 1, Len(ds) - 1))
         IN  IF hi = -1 THEN -1 ELSE 10 * hi + DigitValue(Last(ds))

\* An index line read as a reader of the index file reads it.
IdxFields(f) ==
    IF Len(f) # 5 THEN [ok |-> FALSE, key |-> <<>>, name |-> <<>>, start |-> -1, len |-> -1, num |-> -1]
    ELSE [ok |-> TRUE, key |-> f[1], name |-> f[2], start |-> ParseDec(f[3]),
          len |-> ParseDec(f[4]), num |-> ParseDec(f[5])]

IdxRecord(line) == IdxFields(Split(line, "\t"))

IdxRecordsOfLines(ls) == [i \in 1..Len(ls) |-> IdxRecord(ls[i])]
IdxRecordsOf(text) == IdxRecordsOfLines(TextLines(text))

\* A location line: shard name and file basename
LocRecordsOfLines(ls) == [i \in 1..Len(ls) |-> Split(ls[i], "\t")]
LocRecordsOf(text) == LocRecordsOfLines(TextLines(text))

Done == pc = "done"
IdxRecords == IdxRecordsOf(Utf8Decode(fs[idx_path(base)]))
LocRecords == LocRecordsOf(Utf8Decode(fs[loc_path(base)]))

\* What has been written to a shard handle, whether it has reached the file
\* or is pending in the handle.
Written(dir, fh) == dir[fh.path] \o fh.buf

\* The index records written to the index handle h, whether they have
\* reached the file or are pending in the handle.
IdxWritten(dir, h) == IdxRecordsOf(Utf8Decode(dir[idx_path(base)] \o Unwritten(h)))

\* The chunks the data model defines for n lines per chunk:
\* consecutive groups of n lines, the last one possibly shorter.
CeilDiv(a, b) == (a + b - 1) \div b
NumChunks(lines, n) == CeilDiv(Len(lines), n)
ChunkAt(lines, n, k) ==
    SubSeq(lines, (k - 1) * n + 1, IF k * n < Len(lines) THEN k * n ELSE Len(lines))

\* total compressed length of the records lo..hi that lie in shard num
RECURSIVE SumLens(_, _, _, _)
SumLens(recs, lo, hi, num) ==
    IF lo > hi THEN 0
    ELSE IF lo = hi THEN (IF recs[lo].num = num THEN recs[lo].len ELSE 0)
    ELSE SumLens(recs, lo, (lo + hi) \div 2, num) + SumLens(recs, (lo + hi) \div 2 + 1, hi, num)

\* The chunk size the assembler works with: a chunk_size below 1 closes the
\* chunk after every line.
LinesPerChunk == IF chunk_size >= 1 THEN chunk_size ELSE 1

\* Chunks the generator has yielded once it has finished.
ChunksYielded == IF chunk # <<>> THEN chunk_idx + 1 ELSE chunk_idx

\* The byte length of the gzip member of data: it does not depend on the
\* time stamp.
MemberLength(data) == Len(GzipCompress(data, 0))

\* ------------------------------------------------------------------ claims
\* C1: after a run that completes normally with chunk_size >= 1, every shard
\* file decompresses, and the decompressed contents of the shards, taken in
\* shard order (hence in chunk order), equal the input exactly.
C1_RoundTrip ==
    (Done /\ chunk_size >= 1) =>
        LET out == [k \in 1..Len(created_shards) |-> Gunzip(fs[created_shards[k]])]
        IN  /\ \A k \in 1..Len(created_shards) : out[k].ok
            /\ Join([k \in 1..Len(created_shards) |-> out[k].data]) = Join(input)

\* C2: for every index record, the bytes [start_offset, start_offset +
\* compressed_length) of its shard file are exactly one complete gzip member,
\* and that member decompresses to the lines of the chunk the record describes.
C2_WholeMember ==
    Done =>
        LET recs == IdxRecords
        IN  \A i \in 1..Len(recs) :
                LET r == recs[i]
                IN  /\ r.ok
                    /\ r.num \in 1..Len(created_shards)
                    /\ r.start >= 0
                    /\ r.len >= 0
                    /\ r.start + r.len <= Len(fs[created_shards[r.num]])
                    /\ LET g == Gunzip(SubSeq(fs[created_shards[r.num]], r.start + 1,
                                              r.start + r.len))
                       IN  /\ g.ok
                           /\ g.members = 1
                           /\ g.data = Join(ChunkAt(input, LinesPerChunk, i))

\* The last line of the text file bytes bs, which end with a newline.
RECURSIVE LastLineFrom(_, _)
LastLineFrom(bs, i) ==
    IF i = 0 \/ bs[i] = 10 THEN SubSeq(bs, i + 1, Len(bs)) ELSE LastLineFrom(bs, i - 1)

LastLine(bs) == LastLineFrom(bs, Len(bs) - 1)

\* The index record of the chunk appended by the step just taken: the last
\* one buffered, or the last one written when the batch has been written.
NewestEntry(buffer_after, written_after) ==
    IF buffer_after # <<>> THEN IdxRecordsOf(Last(buffer_after))[1]
    ELSE IdxRecordsOf(Utf8Decode(LastLine(written_after)))[1]

\* The record r describes the append of member to shard number num, which
\* took what was written to it from before to after.
Recorded(r, before, after, member, num) ==
    /\ r.start = Len(before)
    /\ r.len = Len(after) - Len(before)
    /\ r.len = Len(member)
    /\ after = before \o member
    /\ r.num = num

\* C3: for every chunk appended, the recorded start_offset is the size of
\* what has been written to the open shard immediately before the append,
\* which is the sum of the compressed lengths already recorded for that
\* shard, and the recorded compressed_length is the byte length of that
\* chunk's gzip member, which is what the append adds to the shard.
C3_OffsetAccounting ==
    /\ [][(pc = "body" /\ pc' = "check") =>
            Recorded(NewestEntry(idx_buffer', fs'[idx_path(base)] \o Unwritten(idxf')),
                     Written(fs, current_raw_fh), Written(fs', current_raw_fh'),
                     GzipCompress(Join(chunk_lines), clock'), current_shard + 1)]_vars
    /\ [](Done => LET recs == IdxRecords
                   IN  \A i \in 1..Len(recs) :
                           recs[i].start = SumLens(recs, 1, i - 1, recs[i].num))

\* A chunk has just been appended behind another one in a shard after the first.
C3_Witness ==
    /\ pc = "check"
    /\ current_shard >= 1
    /\ end_offset > MemberLength(Join(chunk_lines))

\* C4: after a run that completes normally with chunk_size >= 1, the number of
\* index records equals the number of chunks the generator yielded, which
\* equals ceil(total_lines / chunk_size), and is 0 for an empty input.
C4_RecordCount ==
    (Done /\ chunk_size >= 1) =>
        /\ Len(IdxRecords) = ChunksYielded
        /\ ChunksYielded = CeilDiv(Len(input), chunk_size)
        /\ (Len(input) = 0 => Len(IdxRecords) = 0)

\* A finished run whose line count is not a multiple of chunk_size.
C4_Witness ==
    /\ Done
    /\ chunk_size >= 2
    /\ Len(input) > chunk_size
    /\ Len(input) % chunk_size # 0
    /\ Len(IdxRecords) >= 2

\* The shard and offset at which the data model places the chunks: chunks
\* fill a shard until its size reaches the target, the next chunk starts a
\* new one.  st.out holds the places of the chunks before chunk k, st.num
\* and st.start are the place of chunk k.
PlaceStep(st, k) ==
    LET end == st.start + MemberLength(Join(ChunkAt(input, LinesPerChunk, k)))
        full == ReachedTarget(end, target_shard_size(shard_size_mb))
    IN  [out |-> Append(st.out, [num |-> st.num, start |-> st.start]),
         num |-> IF full THEN st.num + 1 ELSE st.num,
         start |-> IF full THEN 0 ELSE end]

RECURSIVE PlaceFold(_, _, _)
PlaceFold(st, lo, hi) ==
    IF lo > hi THEN st
    ELSE IF lo = hi THEN PlaceStep(st, lo)
    ELSE LET left == PlaceFold(st, lo, (lo + hi) \div 2)
         IN  CASE left.num >= 1 -> PlaceFold(left, (lo + hi) \div 2 + 1, hi)

Places(n) == PlaceFold([out |-> <<>>, num |-> 1, start |-> 0], 1, n).out

\* C5: at the end of a normally completed run the index file holds exactly
\* one record per chunk, in chunk order: the i-th record carries the key of
\* the i-th chunk's first line, that chunk's shard, offset and length.
C5_IndexInChunkOrder ==
    Done =>
        LET recs == IdxRecords
            n == NumChunks(input, LinesPerChunk)
            places == Places(n)
        IN  /\ Len(recs) = n
            /\ \A i \in 1..n :
                  LET c == ChunkAt(input, LinesPerChunk, i)
                  IN  recs[i] = [ok |-> TRUE,
                                 key |-> extract_prejson(c[1]),
                                 name |-> base \o <<"-">> \o Dec02(places[i].num),
                                 start |-> places[i].start,
                                 len |-> MemberLength(Join(c)),
                                 num |-> places[i].num]

\* A finished run in which batch writes and rollover writes of the index
\* alternate: in each of the first two shards a full batch was written and
\* the rollover wrote the entries buffered after it; the writes after the
\* loop wrote those of the third shard.
C5_Witness ==
    /\ Done
    /\ Len(created_shards) > 2
    /\ LET recs == IdxRecords
       IN  \A s \in 1..2 :
              Cardinality({i \in 1..Len(recs) : recs[i].num = s}) > idx_buffer_size

\* C6: the first index record is (shard 1, offset 0); each next record either
\* continues the same shard at start + length of its predecessor, or opens
\* the next shard at offset 0; so (shard_number, start_offset) increases
\* strictly in chunk order.
C6_LayoutOrder ==
    Done =>
        LET recs == IdxRecords
        IN  /\ (recs # <<>> => recs[1].num = 1 /\ recs[1].start = 0)
            /\ \A i \in 1..(Len(recs) - 1) :
                  /\ \/ /\ recs[i + 1].num = recs[i].num
                        /\ recs[i + 1].start = recs[i].start + recs[i].len
                     \/ /\ recs[i + 1].num = recs[i].num + 1
                        /\ recs[i + 1].start = 0
                  /\ \/ recs[i + 1].num > recs[i].num
                     \/ /\ recs[i + 1].num = recs[i].num
                        /\ recs[i + 1].start > recs[i].start

\* A finished run with a record continuing a shard and a record opening one.
C6_Witness ==
    /\ Done
    /\ LET recs == IdxRecords
       IN  /\ \E i \in 1..(Len(recs) - 1) : recs[i + 1].num = recs[i].num
           /\ \E i \in 1..(Len(recs) - 1) : recs[i + 1].num = recs[i].num + 1

\* C7: after a normally completed run every shard but the last one created
\* has a size >= the target shard size.
C7_NonFinalShardsFull ==
    Done =>
        \A k \in 1..(Len(created_shards) - 1) :
            /\ ~target_shard_size(shard_size_mb).inf
            /\ Len(fs[created_shards[k]]) >= target_shard_size(shard_size_mb).val

\* C8: after a normally completed run exactly one shard was created if and
\* only if the shard file on disk has the unnumbered name <base>.cdx.gz, and
\* then the single location record's second field is that name; with two or
\* more shards every shard keeps its numbered name.
C8_SingleShardNaming ==
    Done =>
        /\ (Len(created_shards) = 1 <=> get_shard_path(base, 0, TRUE) \in DOMAIN fs)
        /\ (Len(created_shards) = 1 =>
               /\ Len(LocRecords) = 1
               /\ Len(LocRecords[1]) = 2
               /\ LocRecords[1][2] = base \o CdxGz)
        /\ (Len(created_shards) >= 2 =>
               \A k \in 1..Len(created_shards) :
                   /\ created_shards[k] = get_shard_path(base, k - 1, FALSE)
                   /\ created_shards[k] \in DOMAIN fs)

\* C9: in every normally completed run the shard-name field of every index
\* record equals the first field of exactly one location record.
C9_IndexResolvesThroughLoc ==
    Done =>
        LET recs == IdxRecords
            locs == LocRecords
        IN  \A i \in 1..Len(recs) :
                Cardinality({j \in 1..Len(locs) : locs[j][1] = recs[i].name}) = 1

\* C10: with --single-shard no rollover is ever taken: one shard is created,
\* every index record reports shard number 1, one location record is written.
C10_ForceSingleShard ==
    single_shard =>
        /\ Len(created_shards) <= 1
        /\ current_shard = 0
        /\ (Done => /\ Len(created_shards) = 1
                    /\ LET recs == IdxRecords
                       IN  \A i \in 1..Len(recs) : recs[i].num = 1
                    /\ Len(LocRecords) = 1)

\* A finished --single-shard run whose only shard holds more chunks than an
\* index batch and is larger than every finite target size tried.
C10_Witness ==
    /\ single_shard
    /\ Done
    /\ Len(IdxRecords) > idx_buffer_size
    /\ Len(fs[created_shards[1]]) > MaxThreshold

\* C11: the first shard is opened before any chunk is read, so every run has
\* at least one shard; an input of 0 lines ends with exactly one shard file,
\* empty, 0 index records and 1 location record that names that file.
C11_EagerFirstShard ==
    /\ (pc \notin {"start", "failed"} \/ gen_pc # "unstarted" =>
           /\ Len(created_shards) >= 1
           /\ created_shards[1] \in DOMAIN fs)
    /\ (Done /\ Len(input) = 0 =>
           /\ Len(created_shards) = 1
           /\ {p \in DOMAIN fs : EndsWith(p, CdxGz)} = {created_shards[1]}
           /\ fs[created_shards[1]] = <<>>
           /\ IdxRecords = <<>>
           /\ Len(LocRecords) = 1
           /\ Len(LocRecords[1]) = 2
           /\ PathJoin(output_dir, LocRecords[1][2]) = created_shards[1])

\* A finished run over an empty input.
C11_Witness ==
    /\ Done
    /\ Len(input) = 0
    /\ fs[created_shards[1]] = <<>>
    /\ Len(LocRecords) = 1

\* C12: for chunk_size >= 1 every chunk the generator yields is non-empty and
\* has at most chunk_size lines; a chunk yielded before the input ended has
\* exactly chunk_size lines; the trailing chunk has 1..chunk_size lines and
\* is yielded only when lines are left over.
C12_ChunkSizes ==
    (chunk_size >= 1 /\ pc = "body") =>
        /\ Len(chunk_lines) >= 1
        /\ Len(chunk_lines) <= chunk_size
        /\ (gen_pc = "yielded" => Len(chunk_lines) = chunk_size)
        /\ (Len(chunk_lines) < chunk_size => fh_pos = Len(input))
        /\ (gen_pc = "yielded_last" =>
               /\ fh_pos = Len(input)
               /\ Len(input) % chunk_size # 0
               /\ Len(chunk_lines) = Len(input) % chunk_size)
        /\ chunk_lines = ChunkAt(input, chunk_size, chunk_idx + 1)

\* A shorter trailing chunk is handed to the loop body after full chunks.
C12_Witness ==
    /\ pc = "body"
    /\ gen_pc = "yielded_last"
    /\ chunk_size >= 2
    /\ chunk_idx >= 1
    /\ Len(chunk_lines) < chunk_size

\* C13: the location file exists only once all input is consumed, every shard
\* handle and the index file are closed, the index is complete and the
\* single-shard rename is applied; once written it holds one record per
\* shard created, in shard order: (basename without ".cdx.gz", basename) of
\* the final path.
C13_LocationFile ==
    /\ (loc_path(base) \in DOMAIN fs) =>
           /\ fh_pos = Len(input)
           /\ gen_pc = "finished"
           /\ ~fh_open
           /\ open_shards = {}
           /\ ~current_raw_fh.open
           /\ current_raw_fh.buf = <<>>
           /\ ~idxf.open
           /\ Unwritten(idxf) = <<>>
           /\ Len(IdxRecords) = NumChunks(input, LinesPerChunk)
           /\ \A k \in 1..Len(created_shards) : created_shards[k] \in DOMAIN fs
    /\ Done =>
           /\ loc_path(base) \in DOMAIN fs
           /\ LET locs == LocRecords
               IN  /\ Len(locs) = Len(created_shards)
                   /\ \A k \in 1..Len(created_shards) :
                         LET b == Basename(created_shards[k])
                         IN  locs[k] = <<SubSeq(b, 1, Len(b) - Len(CdxGz)), b>>
                   /\ (Len(created_shards) >= 2 =>
                          \A k \in 1..Len(created_shards) :
                              locs[k][1] = base \o <<"-">> \o Dec02(k))
                   /\ (Len(created_shards) = 1 /\ ~EndsWith(base \o <<"-", "0", "1">>, base)
                          => locs[1][1] = base)

\* The location file of a single, renamed shard that holds several chunks.
C13_Witness ==
    /\ Done
    /\ Len(created_shards) = 1
    /\ created_shards[1] = get_shard_path(base, 0, TRUE)
    /\ Len(IdxRecords) >= 2
    /\ Len(LocRecords) = 1

\* C14: on every exit path of a run, failures included, the input handle,
\* the shard file handle and the index file handle are closed when the run ends.
C14_HandlesClosedOnExit ==
    pc \in {"done", "failed"} =>
        /\ ~fh_open
        /\ ~current_raw_fh.open
        /\ open_shards = {}
        /\ ~idxf.open

\* C15: a run with chunk_size <= 0 is rejected before any input line is
\* processed: it reads no line, writes no chunk, no index record and no
\* location file.
C15_RejectNonPositiveChunkSize ==
    chunk_size <= 0 =>
        /\ fh_pos = 0
        /\ chunk_lines = <<>>
        /\ \A p \in DOMAIN fs : fs[p] = <<>>
        /\ current_raw_fh.buf = <<>>
        /\ Unwritten(idxf) = <<>>
        /\ loc_path(base) \notin DOMAIN fs
        /\ pc # "done"

\* C16: at most one shard file handle is open in every state, and it is the
\* handle of the shard created last; a shard that is not the last one created
\* is never written again; a chunk is written to the handle of the shard
\* created last, and bytes reach only the file of that shard.
C16_OneOpenShard ==
    /\ [](/\ Cardinality(open_shards) <= 1
          /\ \A p \in open_shards : p = Last(created_shards) /\ p = current_raw_fh.path
          /\ (current_raw_fh.open <=> open_shards # {}))
    /\ [][/\ \A k \in 1..(Len(created_shards) - 1) :
                /\ created_shards[k] \in DOMAIN fs'
                /\ fs'[created_shards[k]] = fs[created_shards[k]]
          /\ \A p \in DOMAIN fs :
                (EndsWith(p, CdxGz) /\ p \in DOMAIN fs' /\ fs'[p] # fs[p]) =>
                    /\ p = Last(created_shards)
                    /\ p \in open_shards
          /\ (pc = "body" /\ pc' = "check") =>
                    /\ current_raw_fh.open
                    /\ current_raw_fh.path = Last(created_shards)
                    /\ current_raw_fh'.path = current_raw_fh.path
                    /\ Len(Written(fs', current_raw_fh')) > Len(Written(fs, current_raw_fh))
                    /\ \A p \in DOMAIN fs \ {current_raw_fh.path} :
                          EndsWith(p, CdxGz) => fs'[p] = fs[p]]_vars

\* A chunk has been appended to the third shard while the first two are
\* closed and hold their chunks.
C16_Witness ==
    /\ pc = "check"
    /\ Len(created_shards) >= 3
    /\ open_shards = {Last(created_shards)}
    /\ fs[created_shards[1]] # <<>>
    /\ fs[created_shards[2]] # <<>>
    /\ current_raw_fh.buf # <<>>

\* C17: with chunk_size >= 1 the generator's line buffer never holds more
\* than chunk_size lines; the index batch never holds more than
\* idx_buffer_size entries and has room again when the next chunk starts.
C17_BoundedBuffers ==
    /\ (chunk_size >= 1 => Len(chunk) <= chunk_size /\ Len(chunk_lines) <= chunk_size)
    /\ Len(idx_buffer) <= idx_buffer_size
    /\ (pc \in {"next", "body"} => Len(idx_buffer) < idx_buffer_size)

\* The batch has just been written because it was full: no rollover can
\* have emptied it in a --single-shard run.
C17_Witness ==
    /\ pc = "check"
    /\ single_shard
    /\ idx_buffer = <<>>
    /\ chunk_size >= 2
    /\ Len(chunk) = chunk_size
    /\ Len(IdxWritten(fs, idxf)) = idx_buffer_size

PositiveTarget ==
    ~target_shard_size(shard_size_mb).inf /\ target_shard_size(shard_size_mb).val > 0

\* C18: for a positive target size no chunk is appended to a shard that has
\* reached the target: every index record has start_offset < target, and
\* every non-final shard without its last chunk is below the target, and
\* with it at or above the target.
C18_SoftThreshold ==
    PositiveTarget =>
        LET val == target_shard_size(shard_size_mb).val
        IN  /\ (pc \in {"next", "body"} => current_raw_fh.pos < val)
            /\ (Done =>
                  LET recs == IdxRecords
                  IN  /\ \A i \in 1..Len(recs) : recs[i].start < val
                      /\ \A k \in 1..(Len(created_shards) - 1) :
                            \E i \in 1..Len(recs) :
                                /\ recs[i].num = k
                                /\ (i = Len(recs) \/ recs[i + 1].num = k + 1)
                                /\ recs[i].start + recs[i].len >= val
                                /\ Len(fs[created_shards[k]]) <= recs[i].start + recs[i].len
                                /\ Len(fs[created_shards[k]]) - recs[i].len < val)

\* A finished run with a non-final shard of several chunks that ended above the target.
C18_Witness ==
    /\ Done
    /\ PositiveTarget
    /\ Len(created_shards) >= 2
    /\ Len(fs[created_shards[1]]) > target_shard_size(shard_size_mb).val
    /\ \E i \in 1..Len(IdxRecords) : IdxRecords[i].num = 1 /\ IdxRecords[i].start > 0

\* C19: whenever exactly one shard was created, after finalization the
\* recorded shard path is <output_dir>/<base>.cdx.gz and the file exists
\* under that name, for every base name.
C19_RenameForEveryBase ==
    (Done /\ Len(created_shards) = 1) =>
        /\ created_shards[1] = PathJoin(output_dir, base \o CdxGz)
        /\ PathJoin(output_dir, base \o CdxGz) \in DOMAIN fs

\* C20: every non-final shard holds at least one chunk; the last shard is
\* empty exactly when the input has no lines or the last chunk brought its
\* shard to the target size; such an empty shard counts as a shard (no
\* single-shard rename), is listed in the location file and no index record
\* refers to it.
C20_OnlyLastShardEmpty ==
    Done =>
        LET recs == IdxRecords
            locs == LocRecords
            n == Len(created_shards)
            target == target_shard_size(shard_size_mb)
            last_empty == fs[created_shards[n]] = <<>>
        IN  /\ \A k \in 1..(n - 1) :
                  /\ fs[created_shards[k]] # <<>>
                  /\ \E i \in 1..Len(recs) : recs[i].num = k
            /\ last_empty <=>
                  \/ Len(input) = 0
                  \/ /\ recs # <<>>
                     /\ ~target.inf
                     /\ Last(recs).start + Last(recs).len >= target.val
            /\ (last_empty /\ Len(input) > 0) =>
                  /\ n >= 2
                  /\ n = Last(recs).num + 1
                  /\ created_shards[n] = get_shard_path(base, n - 1, FALSE)
                  /\ Len(locs) = n
                  /\ locs[n] = <<base \o <<"-">> \o Dec02(n), Basename(created_shards[n])>>
                  /\ \A i \in 1..Len(recs) : recs[i].num # n
            /\ (~last_empty) => \E i \in 1..Len(recs) : recs[i].num = n

====
